---- MODULE Spec2Model ----
(***************************************************************************)
(* A model of the C++ frontend of fuzz-introspector                        *)
(* (src/fuzz_introspector/frontends/frontend_cpp.py): source units, their  *)
(* function definitions, callsite extraction, the project-wide name map,   *)
(* cross-unit lookup, function uses, function depth and call trees.        *)
(*                                                                         *)
(* Strings are sequences of one-character strings, so that str.endswith,   *)
(* str.split('::') and string formatting are computed, not assumed.        *)
(* Python's None is the empty sequence <<>> wherever a value is optional.  *)
(***************************************************************************)
EXTENDS Integers, Sequences, FiniteSets, TLC

VARIABLES
    source_code_files,  \* Project.source_code_files: the units, in order
    all_functions,      \* Project.all_functions: ordered dict, as <<[key, value]>>
    phase,              \* "constructed" until dump_module_logic has run, then "dumped"
    result              \* the last call made and what it returned

vars == <<source_code_files, all_functions, phase, result>>

None == <<>>

(***************************************************************************)
(* Strings                                                                 *)
(***************************************************************************)
Sep == <<":", ":">>

EndsWith(s, t) ==
    /\ Len(s) >= Len(t)
    /\ SubSeq(s, Len(s) - Len(t) + 1, Len(s)) = t

StartsWith(s, t) ==
    /\ Len(s) >= Len(t)
    /\ SubSeq(s, 1, Len(t)) = t

SepAt(s, i) == i + 1 <= Len(s) /\ s[i] = ":" /\ s[i + 1] = ":"

\* str.find('::') + 1, and 0 when there is none
FirstSep(s) ==
    IF \E i \in 1..Len(s) : SepAt(s, i)
    THEN CHOOSE i \in 1..Len(s) : SepAt(s, i) /\ \A j \in 1..(i - 1) : ~SepAt(s, j)
    ELSE 0

\* str.rfind('::') + 1, and 0 when there is none
LastSep(s) ==
    IF \E i \in 1..Len(s) : SepAt(s, i)
    THEN CHOOSE i \in 1..Len(s) : SepAt(s, i) /\ \A j \in (i + 1)..Len(s) : ~SepAt(s, j)
    ELSE 0

\* s.split('::')
RECURSIVE Split(_)
Split(s) ==
    LET i == FirstSep(s)
    IN  IF i = 0 THEN <<s>>
        ELSE <<SubSeq(s, 1, i - 1)>> \o Split(SubSeq(s, i + 2, Len(s)))

\* s.split('::', 1)
Split1(s) ==
    LET i == FirstSep(s)
    IN  IF i = 0 THEN <<s>>
        ELSE <<SubSeq(s, 1, i - 1), SubSeq(s, i + 2, Len(s))>>

\* '::'.join(parts)
RECURSIVE Join(_)
Join(parts) ==
    IF Len(parts) = 0 THEN <<>>
    ELSE IF Len(parts) = 1 THEN parts[1]
    ELSE parts[1] \o Sep \o Join(Tail(parts))

Digit(d) == <<"0", "1", "2", "3", "4", "5", "6", "7", "8", "9">>[d + 1]

\* str(n) and '%d' % n
RECURSIVE DecStr(_)
DecStr(n) ==
    IF n < 0 THEN <<"-">> \o DecStr(0 - n)
    ELSE IF n < 10 THEN <<Digit(n)>>
    ELSE DecStr(n \div 10) \o <<Digit(n % 10)>>

RECURSIVE Spaces(_)
Spaces(n) == IF n <= 0 THEN <<>> ELSE <<" ">> \o Spaces(n - 1)

Max(a, b) == IF a >= b THEN a ELSE b

(***************************************************************************)
(* Syntax tree nodes, as the parser hands them over.  A node is a record   *)
(* with a type; text, end (byte_range[1]) and row (start_point.row) where  *)
(* the code reads them; named fields as record fields.                     *)
(***************************************************************************)
Identifier(text, end, row) ==
    [type |-> "identifier", text |-> text, end |-> end, row |-> row]

QualifiedIdentifier(text, end, row) ==
    [type |-> "qualified_identifier", text |-> text, end |-> end, row |-> row]

ThisNode == [type |-> "this"]

FieldExpression(argument, field, end, row) ==
    [type |-> "field_expression", argument |-> argument, field |-> field,
     end |-> end, row |-> row]

CallExpression(function, arguments) ==
    [type |-> "call_expression", function |-> function, arguments |-> arguments]

NewExpression(ctr_type, arguments, end, row) ==
    [type |-> "new_expression", ctr_type |-> ctr_type, arguments |-> arguments,
     end |-> end, row |-> row]

OtherNode(children) == [type |-> "declaration", children |-> children]

\* the nodes of a declarator: type, text and children
DeclaratorName(text) ==
    [type |-> IF FirstSep(text) = 0 THEN "identifier" ELSE "qualified_identifier",
     text |-> text, children |-> <<>>]

Token(type) == [type |-> type, text |-> <<>>, children |-> <<>>]

ParameterList(params) ==
    [type |-> "parameter_list", text |-> <<>>,
     children |-> <<Token("(")>> \o params \o <<Token(")")>>]

FunctionDeclarator(text, inner, params) ==
    [type |-> "function_declarator", text |-> text,
     children |-> <<inner, ParameterList(params)>>]

PointerDeclarator(inner) ==
    [type |-> "pointer_declarator", text |-> <<"*">> \o inner.text,
     children |-> <<Token("*"), inner>>]

ParenthesizedDeclarator(inner) ==
    [type |-> "parenthesized_declarator", text |-> <<"(">> \o inner.text \o <<")">>,
     children |-> <<Token("("), inner, Token(")")>>]

\* a parameter: its type text and its declarator, each None when missing
Parameter(type, declarator) ==
    [type |-> "parameter_declaration", ptype |-> type, declarator |-> declarator]

ParameterName(text) == [type |-> "identifier", text |-> text, declarator |-> None]

ParameterPointer(inner) ==
    [type |-> "pointer_declarator", text |-> <<"*">> \o inner.text,
     declarator |-> <<inner>>]

ParameterArray(inner) ==
    [type |-> "array_declarator", text |-> inner.text \o <<"[", "]">>,
     declarator |-> <<inner>>]

\* a function_definition node: declarator is None or <<node>>, ret the text
\* of the type field or None
FunctionNodeOf(declarator, ret, row, body) ==
    [type |-> "function_definition", declarator |-> declarator, ret |-> ret,
     row |-> row, body |-> body]

\* the node of "ret declarator() { body }"
FunctionNode(declarator, ret, row, body) ==
    FunctionNodeOf(<<FunctionDeclarator(declarator, DeclaratorName(declarator), <<>>)>>,
                   ret, row, body)

NamespaceNode(parts, children) ==
    [type |-> "namespace_definition", name |-> parts, children |-> children]

\* node.children
Children(node) ==
    CASE node.type = "call_expression" -> <<node.function>> \o node.arguments
      [] node.type = "field_expression" -> <<node.argument>>
      [] node.type = "new_expression" -> node.arguments
      [] node.type = "function_definition" -> node.body
      [] node.type = "namespace_definition" -> node.children
      [] node.type = "declaration" -> node.children
      [] OTHER -> <<>>

(***************************************************************************)
(* FunctionDefinition                                                      *)
(***************************************************************************)
\* the node types t with 'identifier' in t
IdentifierTypes ==
    {"identifier", "qualified_identifier", "field_identifier", "type_identifier",
     "namespace_identifier"}

\* the loop over the children of a function_declarator child: found holds
\* self.name and param_list_node
RECURSIVE ScanFunctionDeclarator(_, _)
ScanFunctionDeclarator(children, found) ==
    IF children = <<>> THEN found
    ELSE ScanFunctionDeclarator(
             Tail(children),
             IF children[1].type \in IdentifierTypes
             THEN [found EXCEPT !.name = children[1].text]
             ELSE IF children[1].type = "parameter_list"
             THEN [found EXCEPT !.param_list_node = <<children[1]>>]
             ELSE found)

\* the loop over name_node.children
RECURSIVE ScanDeclarator(_, _)
ScanDeclarator(children, found) ==
    IF children = <<>> THEN found
    ELSE ScanDeclarator(
             Tail(children),
             IF children[1].type \in IdentifierTypes
             THEN [found EXCEPT !.name = children[1].text]
             ELSE IF children[1].type = "function_declarator"
             THEN ScanFunctionDeclarator(children[1].children, found)
             ELSE IF children[1].type = "parameter_list"
             THEN [found EXCEPT !.param_list_node = <<children[1]>>]
             ELSE found)

\* "Handles class or namespace in the function name"
SplitName(name, namespace) ==
    LET Cut(cut) ==
            IF cut = 0
            THEN [name |-> name, namespace_or_class |-> namespace]
            ELSE [name |-> SubSeq(name, cut + 2, Len(name)),
                  namespace_or_class |->
                      IF namespace # <<>> /\ cut > 1
                      THEN namespace \o Sep \o SubSeq(name, 1, cut - 1)
                      ELSE SubSeq(name, 1, cut - 1)]
    IN  Cut(LastSep(name))

\* while param_name.type == type: count += 1; param_name = its declarator
RECURSIVE StripDeclarators(_, _, _)
StripDeclarators(param_name, type, count) ==
    IF param_name # None /\ param_name[1].type = type
    THEN StripDeclarators(param_name[1].declarator, type, count + 1)
    ELSE [param_name |-> param_name, count |-> count]

\* s * n
RECURSIVE Repeat(_, _)
Repeat(s, n) == IF n <= 0 THEN <<>> ELSE s \o Repeat(s, n - 1)

\* the body of the loop over the parameters, for one child of the list
OneParameter(param, args) ==
    LET Arrays(pointers, arrays) ==
            IF arrays.param_name = None
            THEN [args EXCEPT !.raised = "AttributeError"]
            ELSE [args EXCEPT
                     !.arg_types =
                         Append(@, param.ptype
                                   \o Repeat(<<"*">>, pointers.count)
                                   \o Repeat(<<"[", "]">>, arrays.count)),
                     !.arg_names = Append(@, arrays.param_name[1].text)]
        Pointers(pointers) ==
            IF pointers.param_name = None
            THEN [args EXCEPT !.raised = "AttributeError"]
            ELSE Arrays(pointers,
                        StripDeclarators(pointers.param_name, "array_declarator", 0))
    IN  IF param.type # "parameter_declaration" THEN args
        ELSE IF param.ptype = None \/ param.declarator = None THEN args
        ELSE Pointers(StripDeclarators(param.declarator, "pointer_declarator", 0))

\* "Handles parameters": the loop over param_list_node.children
RECURSIVE Parameters(_, _)
Parameters(children, args) ==
    IF children = <<>> \/ args.raised # "" THEN args
    ELSE Parameters(Tail(children), OneParameter(children[1], args))

\* FunctionDefinition.__init__ and _extract_information: the fields of the
\* function built from a function node, and what the constructor raised
FunctionDefinition(root, namespace) ==
    LET Built(named, args) ==
            [root |-> root,
             namespace_or_class |-> named.namespace_or_class,
             start_line |-> root.row + 1,
             name |-> named.name,
             return_type |-> IF root.ret # <<>> THEN root.ret
                             ELSE <<"v", "o", "i", "d">>,
             arg_names |-> args.arg_names,
             arg_types |-> args.arg_types,
             function_uses |-> 0,
             function_depth |-> 0,
             base_callsites |-> <<>>,
             detailed_callsites |-> <<>>,
             raised |-> args.raised]
        Scanned(found) ==
            Built(SplitName(found.name, namespace),
                  IF found.param_list_node = None
                  THEN [arg_names |-> <<>>, arg_types |-> <<>>,
                        raised |-> "AttributeError"]
                  ELSE Parameters(found.param_list_node[1].children,
                                  [arg_names |-> <<>>, arg_types |-> <<>>,
                                   raised |-> ""]))
    IN  IF root.declarator = None
        THEN Built([name |-> <<>>, namespace_or_class |-> namespace],
                   [arg_names |-> <<>>, arg_types |-> <<>>,
                    raised |-> "AttributeError"])
        ELSE Scanned(ScanDeclarator(root.declarator[1].children,
                                    [name |-> <<>>, param_list_node |-> None]))

\* the namespace after the name of a namespace_definition is appended
RECURSIVE NamespaceAppend(_, _)
NamespaceAppend(namespace, parts) ==
    IF parts = <<>> THEN namespace
    ELSE LET appended == namespace \o Sep \o parts[1]
             stripped == IF StartsWith(appended, Sep)
                         THEN SubSeq(appended, 3, Len(appended))
                         ELSE appended
         IN  NamespaceAppend(stripped, Tail(parts))

\* SourceCodeFile.process_tree over the children of a node: the function
\* definitions found, in textual order
RECURSIVE process_tree(_, _)
process_tree(children, namespace) ==
    IF children = <<>> THEN <<>>
    ELSE LET child == children[1]
             here ==
                 CASE child.type = "function_definition" ->
                          <<FunctionDefinition(child, namespace)>>
                   [] child.type = "namespace_definition" ->
                          process_tree(child.children,
                                       NamespaceAppend(namespace, child.name))
                   [] OTHER -> process_tree(Children(child), namespace)
         IN  here \o process_tree(Tail(children), namespace)

(***************************************************************************)
(* SourceCodeFile                                                          *)
(***************************************************************************)
\* func_defs as the constructors leave it: the functions built before one
\* raised, and what that one raised
RECURSIVE UntilRaised(_)
UntilRaised(found) ==
    LET Before(rest) == [rest EXCEPT !.func_defs = <<found[1]>> \o @]
    IN  IF found = <<>> THEN [raised |-> "", func_defs |-> <<>>]
        ELSE IF found[1].raised # ""
        THEN [raised |-> found[1].raised, func_defs |-> <<>>]
        ELSE Before(UntilRaised(Tail(found)))

\* A buffer is the sequence of top-level nodes the parser makes of it; b''
\* is <<>>, and so is None: the constructor tests both with "if source_content".
\* file is what open(source_file, 'rb') finds: [exists, bytes].
SourceCodeFile(source_file, source_content, file) ==
    LET Unit(raised, content, built) ==
            [raised |-> IF raised THEN "FileNotFoundError" ELSE built.raised,
             source_file |-> source_file,
             source_content |-> content,
             func_defs |-> built.func_defs]
        Opened(raised, content) ==
            Unit(raised, content,
                 IF ~raised /\ content # <<>>
                 THEN UntilRaised(process_tree(content, <<>>))
                 ELSE [raised |-> "", func_defs |-> <<>>])
    IN  Opened(source_content = <<>> /\ ~file.exists,
               IF source_content # <<>> THEN source_content
               ELSE IF file.exists THEN file.bytes ELSE <<>>)

\* analyse_source_code(source_content)
InMemoryString ==
    <<"i", "n", "-", "m", "e", "m", "o", "r", "y", " ", "s", "t", "r", "i", "n", "g">>

analyse_source_code(source_content, file) ==
    SourceCodeFile(InMemoryString, source_content, file)

\* func.name, qualified by its namespace or class when it has one
QualifiedName(func) ==
    IF func.namespace_or_class # <<>>
    THEN func.namespace_or_class \o Sep \o func.name
    ELSE func.name

\* target_function_name.split('::')[-1]
LastSegment(target_function_name) ==
    LET Last(parts) == parts[Len(parts)]
    IN  Last(Split(target_function_name))

\* SourceCodeFile.get_function_node(target_function_name, exact): the index
\* in func_defs of the function returned, 0 for None
SourceGetFunctionNode(unit, target_function_name, exact) ==
    LET Exact(func) == QualifiedName(func) = target_function_name
        Simple(func) == func.name = target_function_name
        Last(func) == func.name = LastSegment(target_function_name)
        First(Test(_)) ==
            IF \E i \in 1..Len(unit.func_defs) : Test(unit.func_defs[i])
            THEN CHOOSE i \in 1..Len(unit.func_defs) :
                     /\ Test(unit.func_defs[i])
                     /\ \A j \in 1..(i - 1) : ~Test(unit.func_defs[j])
            ELSE 0
        Tiers(first, second, third) ==
            IF first # 0 THEN first
            ELSE IF exact THEN 0
            ELSE IF second # 0 THEN second
            ELSE third
    IN  Tiers(First(Exact), First(Simple), First(Last))

IsSubstring(t, s) ==
    \E i \in 1..(Len(s) - Len(t) + 1) : SubSeq(s, i, i + Len(t) - 1) = t

LLVMFuzzerTestOneInput ==
    <<"L", "L", "V", "M", "F", "u", "z", "z", "e", "r", "T", "e", "s", "t",
      "O", "n", "e", "I", "n", "p", "u", "t">>

\* SourceCodeFile.has_libfuzzer_harness
has_libfuzzer_harness(unit) ==
    \E i \in 1..Len(unit.func_defs) :
        IsSubstring(LLVMFuzzerTestOneInput, unit.func_defs[i].name)

(***************************************************************************)
(* Project: lookups                                                        *)
(***************************************************************************)
\* one pass of find_source_with_func_def over the units from unit u on: the
\* units that hold a match, and the function matched last
RECURSIVE FindPass(_, _, _, _)
FindPass(units, name, exact, u) ==
    LET Matched(i, rest) ==
            IF i = 0 THEN rest
            ELSE [return_func |-> IF rest.return_func = None
                                  THEN <<u, i>> ELSE rest.return_func,
                  source_codes_with_target |-> <<u>> \o rest.source_codes_with_target]
    IN  IF u > Len(units)
        THEN [return_func |-> None, source_codes_with_target |-> <<>>]
        ELSE Matched(SourceGetFunctionNode(units[u], name, exact),
                     FindPass(units, name, exact, u + 1))

\* a result that takes the first unit of a pass that found any
PassFirst(pass) ==
    IF Len(pass.source_codes_with_target) >= 1 /\ pass.return_func # None
    THEN <<[source_code |-> pass.source_codes_with_target[1],
            func |-> pass.return_func]>>
    ELSE None

\* what find_source_with_func_def returns after a pass, None when the pass
\* did not find exactly one unit
PassResult(pass) ==
    IF Len(pass.source_codes_with_target) = 1 /\ pass.return_func # None
    THEN <<[source_code |-> pass.source_codes_with_target[1],
            func |-> pass.return_func]>>
    ELSE None

\* Project.find_source_with_func_def(name): None, or <<pair>> with the pair
\* [source_code |-> unit index, func |-> <<unit index, function index>>]
find_source_with_func_def(units, name) ==
    LET Retry(strict) ==
            IF strict # None THEN strict
            ELSE PassResult(FindPass(units, name, FALSE, 1))
    IN  Retry(PassResult(FindPass(units, name, TRUE, 1)))

\* the value of the first entry of function_map, in iteration order, whose
\* key ends with suffix; None when there is none
FirstEndingWith(function_map, suffix) ==
    IF \E k \in 1..Len(function_map) : EndsWith(function_map[k].key, suffix)
    THEN LET k == CHOOSE k \in 1..Len(function_map) :
                      /\ EndsWith(function_map[k].key, suffix)
                      /\ \A j \in 1..(k - 1) : ~EndsWith(function_map[j].key, suffix)
         IN  <<function_map[k].value>>
    ELSE None

RECURSIVE SuffixSearch(_, _, _)
SuffixSearch(function_map, name_split, count) ==
    LET Try(hit) ==
            IF hit # None THEN hit
            ELSE SuffixSearch(function_map, name_split, count + 1)
    IN  IF count > Len(name_split) THEN None
        ELSE Try(FirstEndingWith(function_map,
                                 Join(SubSeq(name_split, count, Len(name_split)))))

\* a lookup by suffixes alone, without the exact match
SuffixesOnly(target_name, function_map, one_layer_only) ==
    SuffixSearch(function_map,
                 IF one_layer_only THEN Split1(target_name)
                 ELSE Split(target_name),
                 1)

\* get_function_node(target_name, function_map, one_layer_only): <<value>>
\* for the entry returned, None for no result
get_function_node(target_name, function_map, one_layer_only) ==
    IF \E k \in 1..Len(function_map) : function_map[k].key = target_name
    THEN LET k == CHOOSE k \in 1..Len(function_map) :
                      function_map[k].key = target_name
         IN  <<function_map[k].value>>
    ELSE SuffixSearch(function_map,
                      IF one_layer_only THEN Split1(target_name)
                      ELSE Split(target_name),
                      1)

(***************************************************************************)
(* FunctionDefinition.extract_callsites                                    *)
(***************************************************************************)
\* every function of every unit, as <<unit index, function index>>
FuncIds(units) ==
    UNION {{<<u, i>> : i \in 1..Len(units[u].func_defs)} : u \in 1..Len(units)}

\* the FunctionDefinition a value of the global map stands for
Deref(units, fid) == units[fid[1]].func_defs[fid[2]]

Void == <<"v", "o", "i", "d">>

\* _process_field_expr_return_type(field_expr): [type, full_name]
RECURSIVE _process_field_expr_return_type(_, _, _, _)
_process_field_expr_return_type(field_expr, self, functions, units) ==
    LET Typed(full_name, node) ==
            [type |-> IF node # None
                      THEN <<Deref(units, node[1]).return_type>>
                      ELSE None,
             full_name |-> full_name]
        Named(object_type, full_name) ==
            Typed(full_name,
                  IF object_type # <<>>
                  THEN get_function_node(full_name, functions, FALSE)
                  ELSE None)
        Received(object_type) ==
            Named(object_type,
                  IF object_type # <<>> /\ object_type # Void
                  THEN object_type \o Sep \o field_expr.field
                  ELSE field_expr.field)
    IN  Received(
            CASE field_expr.argument.type = "field_expression" ->
                     _process_field_expr_return_type(
                         field_expr.argument, self, functions, units).full_name
              [] field_expr.argument.type = "this" -> self.namespace_or_class
              [] OTHER -> None)

\* _process_invoke(expr): the (name, end offset, line) triples of one call
_process_invoke(expr, self, functions, units) ==
    LET Emit(func, target_name) ==
            (IF func.type = "field_expression"
             THEN <<<<target_name, func.end, func.row + 1>>>> ELSE <<>>)
            \o (IF target_name # <<>>
                THEN <<<<target_name, func.end, func.row + 1>>>> ELSE <<>>)
    IN  Emit(expr.function,
             IF expr.function.type \in
                    {"identifier", "qualified_identifier", "template_function"}
             THEN expr.function.text
             ELSE IF expr.function.type = "field_expression"
             THEN _process_field_expr_return_type(
                      expr.function, self, functions, units).full_name
             ELSE <<>>)

\* _process_callsites over a sequence of sibling nodes, each with its subtree
RECURSIVE _process_callsites(_, _, _, _)
_process_callsites(stmts, self, functions, units) ==
    LET Own(stmt) ==
            CASE stmt.type = "call_expression" ->
                     _process_invoke(stmt, self, functions, units)
              [] stmt.type = "new_expression" ->
                     IF stmt.ctr_type # <<>>
                     THEN <<<<stmt.ctr_type, stmt.end, stmt.row + 1>>>>
                     ELSE <<>>
              [] OTHER -> <<>>
    IN  IF stmts = <<>> THEN <<>>
        ELSE Own(stmts[1])
             \o _process_callsites(Children(stmts[1]), self, functions, units)
             \o _process_callsites(Tail(stmts), self, functions, units)

SeqToSet(seq) == {seq[k] : k \in 1..Len(seq)}

\* sorted(triples, key=lambda x: x[1]) of a set of triples
RECURSIVE SortedByEnd(_)
SortedByEnd(triples) ==
    LET Then(first) == <<first>> \o SortedByEnd(triples \ {first})
    IN  IF triples = {} THEN <<>>
        ELSE Then(CHOOSE t \in triples : \A other \in triples : t[2] <= other[2])

\* source_file + ':%d,1' % src_line
SrcLoc(source_file, src_line) ==
    source_file \o <<":">> \o DecStr(src_line) \o <<",", "1">>

\* the first half of extract_callsites: base_callsites as it leaves them
BaseCallsites(self, functions, units) ==
    LET Pairs(callsites) ==
            [n \in 1..Len(callsites) |-> <<callsites[n][1], callsites[n][3]>>]
    IN  IF self.base_callsites = <<>>
        THEN Pairs(SortedByEnd(SeqToSet(
                 _process_callsites(self.root.body, self, functions, units))))
        ELSE self.base_callsites

\* a second half that appends the entries whatever the list holds
AppendDetailed(detailed_callsites, base_callsites, source_file) ==
    detailed_callsites
    \o [n \in 1..Len(base_callsites) |->
           [Src |-> SrcLoc(source_file, base_callsites[n][2]),
            Dst |-> base_callsites[n][1]]]

\* the second half of extract_callsites: detailed_callsites as it leaves them
DetailedCallsites(detailed_callsites, base_callsites, source_file) ==
    IF detailed_callsites = <<>>
    THEN detailed_callsites
         \o [n \in 1..Len(base_callsites) |->
                [Src |-> SrcLoc(source_file, base_callsites[n][2]),
                 Dst |-> base_callsites[n][1]]]
    ELSE detailed_callsites

\* func.extract_callsites(functions): the function with its callsite fields
\* as the call leaves them
extract_callsites(self, source_file, functions, units) ==
    LET Filled(base) ==
            [self EXCEPT
                !.base_callsites = base,
                !.detailed_callsites = DetailedCallsites(@, base, source_file)]
    IN  Filled(BaseCallsites(self, functions, units))

(***************************************************************************)
(* Project: uses, depth, call tree, dump                                   *)
(***************************************************************************)
\* the depth of Python's call stack at which RecursionError is raised,
\* scaled to the projects checked here
RecursionLimit == 8

\* Project.calculate_function_uses(target_name)
calculate_function_uses(units, target_name) ==
    LET found(function) ==
            \E k \in 1..Len(function.base_callsites) :
                \/ function.base_callsites[k][1] = target_name
                \/ EndsWith(function.base_callsites[k][1], target_name)
    IN  Cardinality({fid \in FuncIds(units) : found(Deref(units, fid))})

\* a test that finds no name in visited
NeverVisited(name, visited) == FALSE

\* name in visited
InVisited(name, visited) == name \in SeqToSet(visited)

\* _recursive_function_depth(function) with the visited list it shares:
\* [depth, visited, raised]; level is the depth of the call stack
RECURSIVE _recursive_function_depth(_, _, _, _)
RECURSIVE DepthLoop(_, _, _, _, _, _)
_recursive_function_depth(units, function, visited, level) ==
    IF level > RecursionLimit
    THEN [depth |-> 0, visited |-> visited, raised |-> TRUE]
    ELSE IF Len(function.base_callsites) = 0
    THEN [depth |-> 0, visited |-> visited, raised |-> FALSE]
    ELSE DepthLoop(units, function.base_callsites, 1, 0,
                   Append(visited, function.name), level)

\* the loop over callsites[n..] with depth and visited as they stand
DepthLoop(units, callsites, n, depth, visited, level) ==
    LET Returned(sub) ==
            IF sub.raised THEN sub
            ELSE DepthLoop(units, callsites, n + 1, Max(depth, sub.depth + 1),
                           sub.visited, level)
        Found(target) ==
            IF target # None /\ InVisited(Deref(units, target[1].func).name, visited)
            THEN DepthLoop(units, callsites, n + 1, Max(depth, 1), visited, level)
            ELSE IF target # None
            THEN Returned(_recursive_function_depth(
                              units, Deref(units, target[1].func), visited, level + 1))
            ELSE DepthLoop(units, callsites, n + 1, depth,
                           Append(visited, callsites[n][1]), level)
    IN  IF n > Len(callsites)
        THEN [depth |-> depth, visited |-> visited, raised |-> FALSE]
        ELSE Found(find_source_with_func_def(units, callsites[n][1]))

\* Project.calculate_function_depth(target_function)
calculate_function_depth(units, target_function) ==
    _recursive_function_depth(units, target_function, <<>>, 1)

\* an indentation of one space for each level
IndentOne(depth) == Spaces(depth)

\* '  ' * depth
Indent(depth) == Spaces(2 * depth)

\* a test that lets every resolved callee through
ReturnsUnresolved(function, visited_functions, func_node, source_code) ==
    func_node = None \/ source_code = None

\* the test under which extract_calltree returns the line alone
ReturnsLine(function, visited_functions, func_node, source_code) ==
    function \in visited_functions \/ func_node = None \/ source_code = None

\* Project.extract_calltree.  st is what the call has built so far and what
\* it shares with its callers: lines (the text returned, one string per
\* '\n'), visited (visited_functions), raised (RecursionError), and calls:
\* for each line, the callee name as written and the index of the line of
\* its caller (0 for the root).
RECURSIVE extract_calltree(_, _, _, _, _, _, _, _, _)
RECURSIVE CalltreeLoop(_, _, _, _, _, _, _, _)
extract_calltree(units, functions, source_file, source_code, function, depth, line_number, caller, st) ==
    LET Unit(found) ==
            IF source_code # None THEN source_code
            ELSE IF found # None THEN <<found[1].source_code>>
            ELSE None
        Printed(func_name) ==
            [st EXCEPT
                !.lines = Append(@, Indent(depth) \o func_name \o <<" ">>
                                    \o source_file \o <<" ">> \o DecStr(line_number)
                                    \o <<"\n">>),
                !.calls = Append(@, [function |-> function, caller |-> caller])]
        Walk(unit, func_node, printed) ==
            IF ReturnsLine(function, st.visited, func_node, unit)
            THEN printed
            ELSE CalltreeLoop(units, functions, units[unit[1]].source_file,
                              Deref(units, func_node[1]).base_callsites, 1,
                              depth + 1, Len(printed.lines),
                              [printed EXCEPT !.visited = @ \cup {function}])
        Resolved(unit, func_node) ==
            Walk(unit, func_node,
                 Printed(IF func_node # None
                         THEN QualifiedName(Deref(units, func_node[1]))
                         ELSE function))
    IN  IF function = <<>> THEN st
        ELSE IF depth + 1 > RecursionLimit THEN [st EXCEPT !.raised = TRUE]
        ELSE Resolved(Unit(find_source_with_func_def(units, function)),
                      get_function_node(function, functions, FALSE))

\* the loop over func_node.base_callsites[n..]
CalltreeLoop(units, functions, source_file, callsites, n, depth, caller, st) ==
    IF n > Len(callsites) \/ st.raised THEN st
    ELSE CalltreeLoop(units, functions, source_file, callsites, n + 1, depth, caller,
                      extract_calltree(units, functions, source_file, None,
                                       callsites[n][1], depth, callsites[n][2],
                                       caller, st))

\* d.setdefault(key, value) on an ordered dict
DictSetDefault(d, key, value) ==
    IF \E n \in 1..Len(d) : d[n].key = key
    THEN d
    ELSE Append(d, [key |-> key, value |-> value])

\* d[key] = value on an ordered dict
DictSet(d, key, value) ==
    IF \E n \in 1..Len(d) : d[n].key = key
    THEN [n \in 1..Len(d) |->
             IF d[n].key = key THEN [key |-> key, value |-> value] ELSE d[n]]
    ELSE Append(d, [key |-> key, value |-> value])

\* d.update(other)
RECURSIVE DictUpdate(_, _)
DictUpdate(d, other) ==
    IF other = <<>> THEN d
    ELSE DictUpdate(DictSet(d, other[1].key, other[1].value), Tail(other))

\* {func.name: func for func in source_code.func_defs}, from function i on
RECURSIVE SourceCodeFunctions(_, _, _, _)
SourceCodeFunctions(units, u, i, d) ==
    IF i > Len(units[u].func_defs) THEN d
    ELSE SourceCodeFunctions(units, u, i + 1,
                             DictSet(d, units[u].func_defs[i].name, <<u, i>>))

\* the first loop of dump_module_logic: self.all_functions
RECURSIVE AllFunctions(_, _, _)
AllFunctions(units, u, d) ==
    IF u > Len(units) THEN d
    ELSE AllFunctions(units, u + 1,
                      DictUpdate(d, SourceCodeFunctions(units, u, 1, <<>>)))

\* the units once function fid is replaced by func
WithFunction(units, fid, func) ==
    [units EXCEPT ![fid[1]].func_defs[fid[2]] = func]

\* the func_dict of dump_module_logic for func, the units being as given
FuncDict(units, source_file, func, depth) ==
    [functionName |-> func.name,
     functionSourceFile |-> source_file,
     functionLinenumber |-> func.start_line,
     returnType |-> func.return_type,
     Callsites |-> func.detailed_callsites,
     functionUses |-> calculate_function_uses(units, func.name),
     functionDepth |-> depth.depth,
     raised |-> depth.raised,
     functionsReached |->
         {func.base_callsites[c][1] : c \in 1..Len(func.base_callsites)}]

\* the second loop of dump_module_logic, from the n-th value of the map on:
\* the units as the loop leaves them and func_list
RECURSIVE DumpLoop(_, _, _, _)
DumpLoop(units, functions, n, func_list) ==
    LET Described(now, fid, func) ==
            DumpLoop(now, functions, n + 1,
                     Append(func_list,
                            FuncDict(now, units[fid[1]].source_file, func,
                                     calculate_function_depth(now, func))))
        Extracted(fid, func) == Described(WithFunction(units, fid, func), fid, func)
        Process(fid) ==
            Extracted(fid, extract_callsites(Deref(units, fid),
                                             units[fid[1]].source_file,
                                             functions, units))
    IN  IF n > Len(functions) THEN [units |-> units, func_list |-> func_list]
        ELSE Process(functions[n].value)

\* Project.dump_module_logic: the map, the units and the report it leaves
dump_module_logic(units) ==
    LET Dumped(functions, done) ==
            [all_functions |-> functions, units |-> done.units,
             report |-> done.func_list]
        Processed(functions) == Dumped(functions, DumpLoop(units, functions, 1, <<>>))
    IN  Processed(AllFunctions(units, 1, <<>>))


(***************************************************************************)
(* The projects checked                                                    *)
(***************************************************************************)
\* the most callsites the functions of a project hold together
MaxCalls == 3
\* the most function definitions in a unit of a lookup project
MaxFuncDefs == 2
\* the most keys in a map handed to get_function_node
MaxKeys == 2

FileA == <<"A", ".", "c", "c">>
FileB == <<"B", ".", "c", "c">>
OnDisk(bytes) == [exists |-> TRUE, bytes |-> bytes]
NotOnDisk == [exists |-> FALSE, bytes |-> <<>>]

f == <<"f">>
g == <<"g">>
h == <<"h">>
x == <<"x">>
A_f == <<"A", ":", ":", "f">>
B_f == <<"B", ":", ":", "f">>
helper == <<"h", "e", "l", "p", "e", "r">>
int == <<"i", "n", "t">>

\* the statement "name();" as the n-th statement of a body
CallTo(name, n) ==
    CallExpression(IF FirstSep(name) = 0
                   THEN Identifier(name, 10 * n, n)
                   ELSE QualifiedIdentifier(name, 10 * n, n),
                   <<>>)

\* a body that calls the given names in turn
Body(names) == [n \in 1..Len(names) |-> CallTo(names[n], n)]

SeqsUpTo(S, n) == UNION {[1..m -> S] : m \in 0..n}

RECURSIVE TotalLen(_)
TotalLen(seqs) == IF seqs = <<>> THEN 0 ELSE Len(seqs[1]) + TotalLen(Tail(seqs))

Decl(file, declarator, ret, body) ==
    [file |-> file, declarator |-> declarator, ret |-> ret, body |-> body]

\* the text of a file: the functions of decls that the file defines
RECURSIVE Content(_, _, _)
Content(decls, mine, i) ==
    IF i > Len(decls) THEN <<>>
    ELSE (IF decls[i].file = mine
          THEN <<FunctionNode(decls[i].declarator, decls[i].ret, 10 * i, decls[i].body)>>
          ELSE <<>>) \o Content(decls, mine, i + 1)

\* the project of the files A.cc and B.cc
ProjectOf(decls) ==
    <<SourceCodeFile(FileA, <<>>, OnDisk(Content(decls, 1, 1))),
      SourceCodeFile(FileB, <<>>, OnDisk(Content(decls, 2, 1)))>>

\* f and g in A.cc, h in B.cc; any calls among them and to an undefined x
PlainProjects ==
    {ProjectOf(<<Decl(1, f, int, Body(c[1])), Decl(1, g, <<>>, Body(c[2])),
                 Decl(2, h, int, Body(c[3]))>>) :
        c \in {c \in [1..3 -> SeqsUpTo({f, g, h, x}, 2)] : TotalLen(c) <= MaxCalls}}

\* A::f and g in A.cc, B::f in B.cc; calls by simple and by qualified name
QualifiedProjects ==
    {ProjectOf(<<Decl(1, A_f, int, Body(c[1])), Decl(1, g, <<>>, Body(c[2])),
                 Decl(2, B_f, int, Body(c[3]))>>) :
        c \in {c \in [1..3 -> SeqsUpTo({f, A_f, g}, 2)] : TotalLen(c) <= MaxCalls}}

\* f, g in A.cc and h, x in B.cc, each calling only functions defined later
AcyclicProjects ==
    {ProjectOf(<<Decl(1, f, int, Body(c1)), Decl(1, g, int, Body(c2)),
                 Decl(2, h, int, Body(c3)), Decl(2, x, int, <<>>)>>) :
        c1 \in SeqsUpTo({g, h, x}, 2), c2 \in SeqsUpTo({h, x}, 2),
        c3 \in SeqsUpTo({x}, 1)}

\* file A defines helper, file B defines LLVMFuzzerTestOneInput calling it;
\* the files in either order
ScenarioProjects ==
    {ProjectOf(<<Decl(a, helper, <<>>, <<>>),
                 Decl(3 - a, LLVMFuzzerTestOneInput, int, Body(<<helper>>))>>) :
        a \in {1, 2}}

\* A::m in A.cc, whose body holds member calls, chained calls, nested calls
\* and constructions, and the functions they may name
Statements ==
    {CallExpression(FieldExpression(ThisNode, g, 14, 1), <<>>),
     CallExpression(FieldExpression(Identifier(x, 21, 2), f, 23, 2), <<>>),
     CallExpression(
         FieldExpression(FieldExpression(ThisNode, g, 37, 3), f, 39, 3), <<>>),
     CallExpression(
         FieldExpression(
             CallExpression(FieldExpression(Identifier(x, 41, 4), g, 43, 4), <<>>),
             f, 47, 4),
         <<>>),
     NewExpression(h, <<CallExpression(Identifier(g, 57, 5), <<>>)>>, 59, 5),
     NewExpression(<<>>, <<>>, 65, 6),
     CallExpression(Identifier(f, 71, 7),
                    <<CallExpression(Identifier(f, 73, 7), <<>>)>>)}

ExpressionProjects ==
    {ProjectOf(<<Decl(1, <<"A", ":", ":", "m">>, <<>>, body),
                 Decl(1, g, <<"A">>, <<>>), Decl(2, A_f, int, <<>>)>>) :
        body \in {<<>>} \cup {<<s>> : s \in Statements}
                 \cup {st \in Statements \X Statements : st[1] # st[2]}}

\* up to MaxFuncDefs functions without calls in each of A.cc and B.cc, some
\* of them sharing a simple name
Declarators == {f, A_f, g}

LookupProjects ==
    {ProjectOf([n \in 1..Len(a) |-> Decl(1, a[n], int, <<>>)]
               \o [n \in 1..Len(b) |-> Decl(2, b[n], <<>>, <<>>)]) :
        a \in SeqsUpTo(Declarators, MaxFuncDefs),
        b \in SeqsUpTo(Declarators, MaxFuncDefs)}

\* the project is one of the above
IsProject(units) ==
    \/ units \in PlainProjects
    \/ units \in QualifiedProjects
    \/ units \in AcyclicProjects
    \/ units \in ScenarioProjects
    \/ units \in ExpressionProjects
    \/ units \in LookupProjects

(***************************************************************************)
(* The project as a state machine: one action per call on it               *)
(***************************************************************************)
Init ==
    /\ IsProject(source_code_files)
    /\ all_functions = <<>>
    /\ phase = "constructed"
    /\ result = [op |-> "Project"]

\* project.dump_module_logic(report_name)
DumpModuleLogic ==
    \E done \in {dump_module_logic(source_code_files)} :
        /\ source_code_files' = done.units
        /\ all_functions' = done.all_functions
        /\ phase' = "dumped"
        /\ result' = [op |-> "dump_module_logic", report |-> done.report]

\* func.extract_callsites(functions), on any function with any map; before
\* is the function as the call found it
ExtractCallsites(fid, functions) ==
    /\ source_code_files' =
           WithFunction(source_code_files, fid,
                        extract_callsites(Deref(source_code_files, fid),
                                          source_code_files[fid[1]].source_file,
                                          functions, source_code_files))
    /\ result' = [op |-> "extract_callsites", func |-> fid,
                  before |-> Deref(source_code_files, fid)]
    /\ UNCHANGED <<all_functions, phase>>

\* project.calculate_function_depth(func)
CalculateFunctionDepth(fid) ==
    /\ result' = [op |-> "calculate_function_depth", func |-> fid,
                  value |-> calculate_function_depth(source_code_files,
                                                     Deref(source_code_files, fid))]
    /\ UNCHANGED <<source_code_files, all_functions, phase>>

\* project.find_source_with_func_def(name)
FindSourceWithFuncDef(name) ==
    /\ result' = [op |-> "find_source_with_func_def", name |-> name,
                  value |-> find_source_with_func_def(source_code_files, name)]
    /\ UNCHANGED <<source_code_files, all_functions, phase>>

\* project.extract_calltree(source_file, source_code, function); the map
\* all_functions exists only once dump_module_logic has run
ExtractCalltree(source_code, function) ==
    /\ phase = "dumped"
    /\ \E tree \in {extract_calltree(
                        source_code_files, all_functions,
                        IF source_code = None THEN <<"?">>
                        ELSE source_code_files[source_code[1]].source_file,
                        source_code, function, 0, -1, 0,
                        [lines |-> <<>>, calls |-> <<>>, visited |-> {},
                         raised |-> FALSE])} :
           result' = [op |-> "extract_calltree", source_code |-> source_code,
                      function |-> function, lines |-> tree.lines,
                      calls |-> tree.calls, raised |-> tree.raised]
    /\ UNCHANGED <<source_code_files, all_functions, phase>>

\* the names extract_calltree is asked for
Roots == {f, g, h, x, A_f, LLVMFuzzerTestOneInput}

\* the names find_source_with_func_def is asked for
X_f == <<"X", ":", ":", "f">>
A_g == <<"A", ":", ":", "g">>
LookupNames == {f, g, h, A_f, B_f, X_f, A_g}

\* aggregation and callsite extraction
Next ==
    \/ DumpModuleLogic
    \/ \E fid \in FuncIds(source_code_files) :
           \E functions \in {<<>>, AllFunctions(source_code_files, 1, <<>>)} :
               ExtractCallsites(fid, functions)

Spec == Init /\ [][Next]_vars

\* aggregation and depth queries
NextDepth ==
    \/ DumpModuleLogic
    \/ \E fid \in FuncIds(source_code_files) : CalculateFunctionDepth(fid)

SpecDepth == Init /\ [][NextDepth]_vars

\* aggregation and call trees
NextTree ==
    \/ DumpModuleLogic
    \/ \E source_code \in {None, <<1>>} :
           \E function \in Roots : ExtractCalltree(source_code, function)

SpecTree == Init /\ [][NextTree]_vars

\* aggregation and cross-unit lookups
NextLookup ==
    \/ DumpModuleLogic
    \/ \E name \in LookupNames : FindSourceWithFuncDef(name)

SpecLookup == Init /\ [][NextLookup]_vars

(***************************************************************************)
(* The module-level functions on inputs of their own                       *)
(***************************************************************************)
Foo_bar == <<"F", "o", "o", ":", ":", "b", "a", "r">>
Foo_baz == <<"F", "o", "o", ":", ":", "b", "a", "z">>
X_Foo_bar == <<"X", ":", ":", "F", "o", "o", ":", ":", "b", "a", "r">>
X_bar == <<"X", ":", ":", "b", "a", "r">>
bar == <<"b", "a", "r">>
baz == <<"b", "a", "z">>
ar == <<"a", "r">>
qux == <<"q", "u", "x">>

\* the keys of the maps handed to get_function_node, and the names asked for
Keys == {Foo_bar, Foo_baz, bar, baz, X_bar}
Targets == {bar, baz, ar, qux, Foo_bar, X_bar, X_Foo_bar, <<>>}

\* the maps of up to MaxKeys distinct keys; the n-th entry holds the n-th
\* function of a unit
FunctionMaps ==
    {[n \in 1..Len(keys) |-> [key |-> keys[n], value |-> <<1, n>>]] :
        keys \in {k \in SeqsUpTo(Keys, MaxKeys) :
                     \A m, n \in 1..Len(k) : m # n => k[m] # k[n]}}

char == <<"c", "h", "a", "r">>

\* "int f(int g, char *h[], int)": a parameter without a name among others
WithParameters ==
    FunctionNodeOf(
        <<FunctionDeclarator(f, DeclaratorName(f),
                             <<Parameter(int, <<ParameterName(g)>>), Token(","),
                               Parameter(char, <<ParameterPointer(
                                                    ParameterArray(ParameterName(h)))>>),
                               Token(","), Parameter(int, None)>>)>>,
        int, 1, <<>>)

\* "(*)(int g) { }": no type field and no identifiable name
WithoutName ==
    FunctionNodeOf(
        <<FunctionDeclarator(<<"(", "*", ")">>,
                             ParenthesizedDeclarator(Token("*")),
                             <<Parameter(int, <<ParameterName(g)>>)>>)>>,
        None, 1, <<>>)

\* "int *f() { }": the parameter list one level below the declarator
PointerReturning ==
    FunctionNodeOf(
        <<PointerDeclarator(FunctionDeclarator(f, DeclaratorName(f), <<>>))>>,
        int, 1, <<>>)

\* "int **f() { }": the parameter list two levels below the declarator
PointerPointerReturning ==
    FunctionNodeOf(
        <<PointerDeclarator(
              PointerDeclarator(FunctionDeclarator(f, DeclaratorName(f), <<>>)))>>,
        int, 1, <<>>)

\* buffers with function definitions that lack a syntactic piece, alone and
\* before a well-formed function
MalformedBuffers ==
    {<<WithParameters>>, <<WithoutName>>, <<PointerReturning>>,
     <<PointerPointerReturning>>,
     <<WithoutName, FunctionNode(g, int, 3, <<>>)>>,
     <<PointerPointerReturning, FunctionNode(g, int, 3, <<>>)>>}

\* the buffers handed to analyse_source_code, as the parser reads them, and
\* what a file named 'in-memory string' may be on disk
Buffers ==
    {<<>>,
     <<OtherNode(<<>>)>>,
     <<FunctionNode(f, int, 1, <<>>)>>,
     <<FunctionNode(LLVMFuzzerTestOneInput, int, 1, Body(<<f>>))>>,
     <<NamespaceNode(<<<<"A">>>>, <<FunctionNode(f, <<>>, 2, <<>>)>>)>>}
    \cup MalformedBuffers
Files == {NotOnDisk, OnDisk(<<>>), OnDisk(<<FunctionNode(g, int, 1, <<>>)>>)}

InitPure ==
    /\ source_code_files = <<>>
    /\ all_functions \in FunctionMaps
    /\ phase = "constructed"
    /\ result = [op |-> "import"]

\* get_function_node(target_name, function_map, one_layer_only)
GetFunctionNode(target_name, one_layer_only) ==
    /\ result' = [op |-> "get_function_node", target_name |-> target_name,
                  one_layer_only |-> one_layer_only,
                  value |-> get_function_node(target_name, all_functions,
                                              one_layer_only)]
    /\ UNCHANGED <<source_code_files, all_functions, phase>>

\* analyse_source_code(source_content), file being what is on disk under
\* the name 'in-memory string'; the unit returned is kept
AnalyseSourceCode(source_content, file) ==
    \E unit \in {analyse_source_code(source_content, file)} :
        /\ source_code_files' = IF unit.raised = "" THEN <<unit>> ELSE <<>>
        /\ result' = [op |-> "analyse_source_code",
                      source_content |-> source_content, value |-> unit]
        /\ UNCHANGED <<all_functions, phase>>

\* source_code.has_libfuzzer_harness() on a unit returned
HasLibfuzzerHarness(u) ==
    /\ result' = [op |-> "has_libfuzzer_harness",
                  value |-> has_libfuzzer_harness(source_code_files[u])]
    /\ UNCHANGED <<source_code_files, all_functions, phase>>

NextPure ==
    \/ \E target_name \in Targets :
           \E one_layer_only \in BOOLEAN :
               GetFunctionNode(target_name, one_layer_only)
    \/ \E source_content \in Buffers :
           \E file \in Files : AnalyseSourceCode(source_content, file)
    \/ \E u \in 1..Len(source_code_files) : HasLibfuzzerHarness(u)

SpecPure == InitPure /\ [][NextPure]_vars

(***************************************************************************)
(* Properties                                                              *)
(***************************************************************************)
\* the maps extract_callsites is handed
MapsHanded == {<<>>, all_functions, AllFunctions(source_code_files, 1, <<>>)}

\* extract_callsites on a function as it stands, then once more
ExtractedAgainIsSame(fid, functions) ==
    LET Again(once) ==
            extract_callsites(once, source_code_files[fid[1]].source_file,
                              functions, source_code_files) = once
    IN  Again(extract_callsites(Deref(source_code_files, fid),
                                source_code_files[fid[1]].source_file,
                                functions, source_code_files))

\* C1: callsite extraction is idempotent.  In every state, for every
\* function and every map, extracting twice leaves base_callsites and
\* detailed_callsites as extracting once leaves them; and an invocation on a
\* function some earlier invocation has filled leaves the function as it
\* found it, with no entry added or duplicated.  A function without callsites
\* has both lists empty after any number of invocations.
C1_ExtractCallsitesIdempotent ==
    /\ \A fid \in FuncIds(source_code_files) :
           \A functions \in MapsHanded : ExtractedAgainIsSame(fid, functions)
    /\ result.op = "extract_callsites" =>
           /\ (result.before.base_callsites # <<>>
               \/ result.before.detailed_callsites # <<>>)
                  => Deref(source_code_files, result.func) = result.before
           /\ Len(Deref(source_code_files, result.func).detailed_callsites)
                  = Len(Deref(source_code_files, result.func).base_callsites)
           /\ Deref(source_code_files, result.func).root.body = <<>>
                  => Deref(source_code_files, result.func).detailed_callsites = <<>>

\* a second invocation has run on a function with two callsites
C1_Witness ==
    /\ result.op = "extract_callsites"
    /\ Len(result.before.detailed_callsites) = 2
    /\ Deref(source_code_files, result.func) = result.before

\* f calls only g and g calls only f
CallsOnly(function, name) ==
    /\ function.base_callsites # <<>>
    /\ \A c \in 1..Len(function.base_callsites) : function.base_callsites[c][1] = name

MutuallyRecursive(units, fid) ==
    \E other \in FuncIds(units) :
        /\ other # fid
        /\ Deref(units, fid).namespace_or_class = <<>>
        /\ Deref(units, other).namespace_or_class = <<>>
        /\ Deref(units, fid).name # Deref(units, other).name
        /\ CallsOnly(Deref(units, fid), Deref(units, other).name)
        /\ CallsOnly(Deref(units, other), Deref(units, fid).name)

\* C2: calculate_function_depth terminates with a finite non-negative depth.
\* No depth query and no depth the aggregation pass records ends in a
\* RecursionError; every depth is a natural number no greater than the
\* number of functions; and of two functions that call only each other,
\* each has depth 2: one for the call and one for the re-entry.
C2_DepthTerminates ==
    /\ result.op = "calculate_function_depth" =>
           /\ ~result.value.raised
           /\ result.value.depth \in 0..Cardinality(FuncIds(source_code_files))
           /\ MutuallyRecursive(source_code_files, result.func)
                  => result.value.depth = 2
    /\ result.op = "dump_module_logic" =>
           \A k \in 1..Len(result.report) :
               /\ ~result.report[k].raised
               /\ result.report[k].functionDepth
                      \in 0..Cardinality(FuncIds(source_code_files))

\* the depth of one of two mutually recursive functions has been asked for
C2_Witness ==
    /\ result.op = "calculate_function_depth"
    /\ MutuallyRecursive(source_code_files, result.func)
    /\ result.value.depth = 2

\* the length of the longest chain of resolved calls that starts at
\* function, chains longer than fuel cut at fuel
RECURSIVE LongestChain(_, _, _)
LongestChain(units, function, fuel) ==
    LET Below(target) ==
            IF target = None THEN 0
            ELSE 1 + LongestChain(units, Deref(units, target[1].func), fuel - 1)
        Lengths ==
            {Below(find_source_with_func_def(units, function.base_callsites[c][1])) :
                c \in 1..Len(function.base_callsites)}
    IN  IF fuel = 0 \/ function.base_callsites = <<>> THEN 0
        ELSE CHOOSE m \in Lengths : \A n \in Lengths : n <= m

\* every callee name resolves and no chain of calls comes back to a function
AcyclicResolved(units) ==
    \A fid \in FuncIds(units) :
        /\ \A c \in 1..Len(Deref(units, fid).base_callsites) :
               find_source_with_func_def(
                   units, Deref(units, fid).base_callsites[c][1]) # None
        /\ LongestChain(units, Deref(units, fid), Cardinality(FuncIds(units)) + 1)
               <= Cardinality(FuncIds(units))

\* C3: after the aggregation pass, on an acyclic call graph in which every
\* callee name resolves, calculate_function_depth(f) is the length of the
\* longest call chain starting at f: 0 without callsites, else 1 + the
\* greatest depth of a callee, in whatever order the callsites appear.
C3_DepthIsLongestChain ==
    (/\ result.op = "calculate_function_depth"
     /\ phase = "dumped"
     /\ AcyclicResolved(source_code_files))
        => result.value.depth
               = LongestChain(source_code_files,
                              Deref(source_code_files, result.func),
                              Cardinality(FuncIds(source_code_files)))

\* the functions whose base callsites hold a callee name equal to, or
\* ending with, name
Users(units, name) ==
    {fid \in FuncIds(units) :
        \E c \in 1..Len(Deref(units, fid).base_callsites) :
            EndsWith(Deref(units, fid).base_callsites[c][1], name)}

\* C4: the use count dump_module_logic records for each function of the
\* global map is the number of distinct functions whose base callsites hold
\* a callee name equal to, or ending with, the function's name; helper,
\* called by LLVMFuzzerTestOneInput from another file, is recorded with 1.
C4_RecordedUses ==
    result.op = "dump_module_logic" =>
        \A k \in 1..Len(result.report) :
            result.report[k].functionUses
                = Cardinality(Users(source_code_files,
                                    result.report[k].functionName))

\* the units that hold a function whose qualified name is name
ExactUnits(units, name) ==
    {u \in 1..Len(units) :
        \E i \in 1..Len(units[u].func_defs) :
            QualifiedName(units[u].func_defs[i]) = name}

\* the units that hold a function matching name by its qualified name, its
\* simple name, or the last segment of name
FuzzyUnits(units, name) ==
    {u \in 1..Len(units) :
        \E i \in 1..Len(units[u].func_defs) :
            \/ QualifiedName(units[u].func_defs[i]) = name
            \/ units[u].func_defs[i].name = name
            \/ units[u].func_defs[i].name = LastSegment(name)}

\* the pair of the single unit of a set with its own match
PairOf(units, matching, name, exact) ==
    LET Pair(u) ==
            <<[source_code |-> u,
               func |-> <<u, SourceGetFunctionNode(units[u], name, exact)>>]>>
    IN  Pair(CHOOSE u \in matching : TRUE)

\* C5: find_source_with_func_def returns a pair exactly when a unique unit
\* matches: the unit with the only exact match and that match; failing
\* that, the only unit with a fuzzy match and that match; and no result
\* whenever the deciding pass matched in two or more units or in none.  The
\* function returned is one of the unit returned.
C5_UniqueUnitOrNoResult ==
    result.op = "find_source_with_func_def" =>
        /\ Cardinality(ExactUnits(source_code_files, result.name)) = 1
               => result.value = PairOf(source_code_files,
                                        ExactUnits(source_code_files, result.name),
                                        result.name, TRUE)
        /\ (/\ Cardinality(ExactUnits(source_code_files, result.name)) # 1
            /\ Cardinality(FuzzyUnits(source_code_files, result.name)) = 1)
               => result.value = PairOf(source_code_files,
                                        FuzzyUnits(source_code_files, result.name),
                                        result.name, FALSE)
        /\ (/\ Cardinality(ExactUnits(source_code_files, result.name)) # 1
            /\ Cardinality(FuzzyUnits(source_code_files, result.name)) # 1)
               => result.value = None
        /\ Cardinality(ExactUnits(source_code_files, result.name)) >= 2
               => result.value = None
        /\ result.value # None =>
               /\ result.value[1].func[1] = result.value[1].source_code
               /\ result.value[1].func \in FuncIds(source_code_files)

\* a name that two units match, fuzzily only, has been looked up
C5_Witness ==
    /\ result.op = "find_source_with_func_def"
    /\ Cardinality(ExactUnits(source_code_files, result.name)) = 0
    /\ Cardinality(FuzzyUnits(source_code_files, result.name)) = 2
    /\ result.value = None

\* the positions of the keys of function_map that end with the suffix of
\* parts from count on
KeysEnding(function_map, parts, count) ==
    {k \in 1..Len(function_map) :
        EndsWith(function_map[k].key,
                 Join(SubSeq(parts, count, Len(parts))))}

\* the entry the suffixes of parts select: the first, in map order, of the
\* keys ending with the first suffix that any key ends with
SelectedBySuffix(function_map, parts) ==
    LET Least(S) == CHOOSE m \in S : \A n \in S : m <= n
        First(count) == function_map[Least(KeysEnding(function_map, parts, count))]
    IN  First(Least({c \in 1..Len(parts) :
                        KeysEnding(function_map, parts, c) # {}}))

\* C6: get_function_node(target, map) returns the entry stored under
\* target when target is a key, whatever other keys end with it; otherwise
\* the first entry, in map order, whose key ends with the most specific
\* suffix of the '::'-split target that any key ends with; and no result
\* only when no key ends with the last segment.  With the keys Foo::bar and
\* baz, bar yields the entry of Foo::bar.
C6_GlobalLookup ==
    (result.op = "get_function_node" /\ ~result.one_layer_only) =>
        /\ \A k \in 1..Len(all_functions) :
               all_functions[k].key = result.target_name
                   => result.value = <<all_functions[k].value>>
        /\ (\A k \in 1..Len(all_functions) :
                all_functions[k].key # result.target_name)
               => IF KeysEnding(all_functions, Split(result.target_name),
                                Len(Split(result.target_name))) = {}
                  THEN result.value = None
                  ELSE result.value
                           = <<SelectedBySuffix(all_functions,
                                                Split(result.target_name)).value>>
        /\ result.value = None
               <=> KeysEnding(all_functions, Split(result.target_name),
                              Len(Split(result.target_name))) = {}
        /\ (/\ {all_functions[k].key : k \in 1..Len(all_functions)} = {Foo_bar, baz}
            /\ result.target_name = bar)
               => \E k \in 1..Len(all_functions) :
                      /\ all_functions[k].key = Foo_bar
                      /\ result.value = <<all_functions[k].value>>

\* bar has been looked up in the map of the keys baz and Foo::bar
C6_Witness ==
    /\ result.op = "get_function_node"
    /\ ~result.one_layer_only
    /\ result.target_name = bar
    /\ Len(all_functions) = 2
    /\ all_functions[1].key = baz
    /\ all_functions[2].key = Foo_bar
    /\ result.value = <<all_functions[2].value>>

\* the functions of the units that bear the simple name name
Bearers(units, name) == {fid \in FuncIds(units) : Deref(units, fid).name = name}

\* b comes after a in unit order and, within a unit, textual order
ComesAfter(b, a) == b[1] > a[1] \/ (b[1] = a[1] /\ b[2] > a[2])

\* C7: after the aggregation pass the global map holds one entry for each
\* distinct simple name of the project's functions and no other; the entry
\* is the last function bearing the name, in unit order and textual order
\* within a unit, and no earlier bearer of the name is in the map.
C7_LastWriteWins ==
    phase = "dumped" =>
        /\ {all_functions[k].key : k \in 1..Len(all_functions)}
               = {Deref(source_code_files, fid).name :
                     fid \in FuncIds(source_code_files)}
        /\ \A j, k \in 1..Len(all_functions) :
               j # k => all_functions[j].key # all_functions[k].key
        /\ \A k \in 1..Len(all_functions) :
               /\ all_functions[k].value
                      \in Bearers(source_code_files, all_functions[k].key)
               /\ \A fid \in Bearers(source_code_files, all_functions[k].key) :
                      fid = all_functions[k].value
                          \/ ComesAfter(all_functions[k].value, fid)

\* a name borne by functions of both units, twice in one of them, has been
\* aggregated
C7_Witness ==
    /\ phase = "dumped"
    /\ \E k \in 1..Len(all_functions) :
           /\ Cardinality(Bearers(source_code_files, all_functions[k].key)) >= 3
           /\ all_functions[k].value[1] = 2

\* the number of spaces a line starts with
RECURSIVE LeadingSpaces(_)
LeadingSpaces(line) ==
    IF line # <<>> /\ line[1] = " " THEN 1 + LeadingSpaces(Tail(line)) ELSE 0

\* the callee names of the lines rendered for the callsites of line i
Beneath(calls, i) ==
    LET CalledBy(call) == call.caller = i
        Names(below) == [n \in 1..Len(below) |-> below[n].function]
    IN  Names(SelectSeq(calls, CalledBy))

\* the callee names of the function that name resolves to in the global map
Callees(units, functions, name) ==
    LET Of(func_node) ==
            IF func_node = None THEN <<>>
            ELSE [c \in 1..Len(Deref(units, func_node[1]).base_callsites) |->
                     Deref(units, func_node[1]).base_callsites[c][1]]
    IN  Of(get_function_node(name, functions, FALSE))

\* the callee of line j resolves to a known function and a known unit
Resolves(units, functions, source_code, calls, j) ==
    /\ get_function_node(calls[j].function, functions, FALSE) # None
    /\ \/ j = 1 /\ source_code # None
       \/ find_source_with_func_def(units, calls[j].function) # None

\* the names on the path from the root of the rendering to the caller of line j
RECURSIVE OnPath(_, _)
OnPath(calls, j) ==
    IF calls[j].caller = 0 THEN {}
    ELSE {calls[calls[j].caller].function} \cup OnPath(calls, calls[j].caller)

\* the names of the lines rendered before line j
RenderedBefore(calls, j) == {calls[i].function : i \in 1..(j - 1)}

\* C8, as stated: the callsites of a callee are rendered beneath its line
\* exactly when the callee resolves to a known function and unit and its
\* name is not on the path from the root to it, so that a function called
\* from two sibling branches is expanded under both.
C8_ExpandedUnlessOnPath ==
    result.op = "extract_calltree" =>
        \A j \in 1..Len(result.calls) :
            Beneath(result.calls, j)
                = IF /\ Resolves(source_code_files, all_functions,
                                 result.source_code, result.calls, j)
                     /\ result.calls[j].function \notin OnPath(result.calls, j)
                  THEN Callees(source_code_files, all_functions,
                               result.calls[j].function)
                  ELSE <<>>

\* C8, amended: the callsites of a callee are rendered beneath its line
\* exactly when the callee resolves to a known function and unit and its
\* name is on no earlier line of the whole rendering; a function called
\* from two sibling branches is expanded under the first of them only.
C8_ExpandedUnlessRendered ==
    result.op = "extract_calltree" =>
        \A j \in 1..Len(result.calls) :
            Beneath(result.calls, j)
                = IF /\ Resolves(source_code_files, all_functions,
                                 result.source_code, result.calls, j)
                     /\ result.calls[j].function
                            \notin RenderedBefore(result.calls, j)
                  THEN Callees(source_code_files, all_functions,
                               result.calls[j].function)
                  ELSE <<>>

\* a function with callsites is called twice by one caller, is not on the
\* path to either call, and is expanded beneath the first call alone
C8_Witness ==
    /\ result.op = "extract_calltree"
    /\ \E i, j \in 1..Len(result.calls) :
           /\ i < j
           /\ result.calls[i].function = result.calls[j].function
           /\ result.calls[i].caller = result.calls[j].caller
           /\ result.calls[j].function \notin OnPath(result.calls, j)
           /\ Resolves(source_code_files, all_functions, result.source_code,
                       result.calls, j)
           /\ Beneath(result.calls, i) # <<>>
           /\ Beneath(result.calls, j) = <<>>

\* C9: extract_calltree terminates with a finite rendering.  No rendering
\* ends in a RecursionError; every call emits one line, ended by its only
\* newline; the root line starts with no space; and every other line
\* starts with two spaces more than the line of its caller, which precedes
\* it.  The lines beneath a line are none, or one for each callsite of the
\* function the line names, in order.
C9_CalltreeRendering ==
    result.op = "extract_calltree" =>
        /\ ~result.raised
        /\ Len(result.lines) = Len(result.calls)
        /\ Len(result.lines) >= 1
        /\ \A j \in 1..Len(result.lines) :
               /\ result.lines[j][Len(result.lines[j])] = "\n"
               /\ \A c \in 1..(Len(result.lines[j]) - 1) :
                      result.lines[j][c] # "\n"
               /\ result.calls[j].caller = 0
                      => j = 1 /\ LeadingSpaces(result.lines[j]) = 0
               /\ result.calls[j].caller # 0
                      => /\ result.calls[j].caller < j
                         /\ LeadingSpaces(result.lines[j])
                                = LeadingSpaces(result.lines[result.calls[j].caller]) + 2
               /\ Beneath(result.calls, j)
                      \in {<<>>, Callees(source_code_files, all_functions,
                                         result.calls[j].function)}

\* a rendering of a cycle: a line two levels deep names a function that is
\* on its own path
C9_Witness ==
    /\ result.op = "extract_calltree"
    /\ ~result.raised
    /\ \E j \in 1..Len(result.calls) :
           /\ LeadingSpaces(result.lines[j]) = 4
           /\ result.calls[j].function \in OnPath(result.calls, j)

\* C10: analyse_source_code on an empty buffer raises nothing and returns a
\* unit with no function, for which has_libfuzzer_harness is false.
C10_EmptyBufferIsNoError ==
    (result.op = "analyse_source_code" /\ result.source_content = <<>>) =>
        /\ result.value.raised = ""
        /\ result.value.func_defs = <<>>
        /\ ~has_libfuzzer_harness(result.value)

\* the function_definition nodes among nodes and beneath them
RECURSIVE FunctionNodes(_)
FunctionNodes(nodes) ==
    IF nodes = <<>> THEN <<>>
    ELSE (IF nodes[1].type = "function_definition" THEN <<nodes[1]>>
          ELSE FunctionNodes(Children(nodes[1])))
         \o FunctionNodes(Tail(nodes))

IsParameterList(node) == node.type = "parameter_list"

\* the parameter lists directly under a declarator node
ListsUnder(node) == SelectSeq(node.children, IsParameterList)

\* the parameter lists one level deeper, under its function_declarator children
RECURSIVE ListsBelow(_)
ListsBelow(children) ==
    IF children = <<>> THEN <<>>
    ELSE (IF children[1].type = "function_declarator"
          THEN ListsUnder(children[1]) ELSE <<>>)
         \o ListsBelow(Tail(children))

IsFullParameter(node) ==
    /\ node.type = "parameter_declaration"
    /\ node.ptype # None
    /\ node.declarator # None

\* the number of parameters with a type and a name in the parameter list of
\* a function node, none when the list is at neither level
FullParameters(root) ==
    LET Count(lists) ==
            IF lists = <<>> THEN 0
            ELSE Len(SelectSeq(lists[1].children, IsFullParameter))
    IN  Count(ListsUnder(root.declarator[1])
              \o ListsBelow(root.declarator[1].children))

\* the node has an identifier directly under its declarator or one level deeper
HasName(root) ==
    \/ \E c \in 1..Len(root.declarator[1].children) :
           \/ root.declarator[1].children[c].type \in IdentifierTypes
           \/ /\ root.declarator[1].children[c].type = "function_declarator"
              /\ \E d \in 1..Len(root.declarator[1].children[c].children) :
                     root.declarator[1].children[c].children[d].type
                         \in IdentifierTypes

\* C11: building the functions of a unit whose function-definition nodes
\* lack a parameter list, a declarator name or a type field raises nothing
\* and drops no function: each node yields a function, with return type
\* "void" when the type field is missing, an empty name when the declarator
\* has no identifiable name, one argument for each parameter that has a type
\* and a name, and no argument when the parameter list is neither directly
\* under the declarator nor one level deeper.
C11_MalformedDegrades ==
    (result.op = "analyse_source_code" /\ result.source_content # <<>>) =>
        /\ result.value.raised = ""
        /\ Len(result.value.func_defs)
               = Len(FunctionNodes(result.source_content))
        /\ \A i \in 1..Len(result.value.func_defs) :
               /\ result.value.func_defs[i].root
                      = FunctionNodes(result.source_content)[i]
               /\ result.value.func_defs[i].root.ret = None
                      => result.value.func_defs[i].return_type = Void
               /\ ~HasName(result.value.func_defs[i].root)
                      => result.value.func_defs[i].name = <<>>
               /\ Len(result.value.func_defs[i].arg_names)
                      = FullParameters(result.value.func_defs[i].root)
               /\ Len(result.value.func_defs[i].arg_types)
                      = FullParameters(result.value.func_defs[i].root)

\* C12: the depth dump_module_logic records for a function is computed
\* from fully populated callsites: it is the depth calculate_function_depth
\* returns for the function once the pass has finished, whatever the order
\* of the units and of the map; LLVMFuzzerTestOneInput calling helper of
\* another file is recorded with depth 1.
C12_RecordedDepthIsFinal ==
    result.op = "dump_module_logic" =>
        \A k \in 1..Len(result.report) :
            /\ result.report[k].functionDepth
                   = calculate_function_depth(
                         source_code_files,
                         Deref(source_code_files, all_functions[k].value)).depth
            /\ (/\ source_code_files \in ScenarioProjects
                /\ result.report[k].functionName = LLVMFuzzerTestOneInput)
                   => result.report[k].functionDepth = 1

\* the callee name of a member access by the receiver's static type: the
\* return type of the function the receiver's own callee name resolves to
\* when the receiver is a member access, the qualifier of the enclosing
\* function when it is this, and unknown otherwise
RECURSIVE MemberCallee(_, _, _, _)
MemberCallee(field_expr, self, functions, units) ==
    LET Qualified(type) ==
            IF type # None /\ type[1] # <<>> /\ type[1] # Void
            THEN type[1] \o Sep \o field_expr.field
            ELSE field_expr.field
        ReturnType(node) ==
            IF node = None THEN None
            ELSE <<Deref(units, node[1]).return_type>>
    IN  Qualified(
            CASE field_expr.argument.type = "field_expression" ->
                     ReturnType(get_function_node(
                         MemberCallee(field_expr.argument, self, functions, units),
                         functions, FALSE))
              [] field_expr.argument.type = "this" -> <<self.namespace_or_class>>
              [] OTHER -> None)

\* the statements of a body that call through a member access
MemberCalls(body) ==
    {n \in 1..Len(body) :
        /\ body[n].type = "call_expression"
        /\ body[n].function.type = "field_expression"}

\* C13: the callee recorded for a member-access call is the field name
\* qualified by the receiver's static type: for a receiver that is itself a
\* member access, the return type of the function its qualified name
\* resolves to in the global map; for this, the qualifier of the enclosing
\* function; and the bare field name when the type is unknown or "void".
C13_MemberCalleeByStaticType ==
    phase = "dumped" =>
        \A k \in 1..Len(all_functions) :
            \A n \in MemberCalls(Deref(source_code_files,
                                       all_functions[k].value).root.body) :
                <<MemberCallee(
                      Deref(source_code_files, all_functions[k].value).root.body[n].function,
                      Deref(source_code_files, all_functions[k].value),
                      all_functions, source_code_files),
                  Deref(source_code_files, all_functions[k].value).root.body[n].function.row + 1>>
                    \in SeqToSet(Deref(source_code_files,
                                       all_functions[k].value).base_callsites)

====
